---- MODULE Spec2Model ----
(***************************************************************************)
(* Model of the log analyzer (src/src/log_analyzer.rs): per-line field     *)
(* extraction (LogEntry::parse_log), ingestion (Logs::read_and_parse_log), *)
(* the three filters and the aggregation (LogStats::from_entries).         *)
(*                                                                         *)
(* Text is a sequence of one-character strings, so that the regular        *)
(* expressions of the source are modelled by what they match, character by *)
(* character.  Option<T> is [some |-> FALSE] or [some |-> TRUE, val |-> v].*)
(***************************************************************************)
EXTENDS Integers, Sequences, FiniteSets, TLC

(* ------------------------------ bounds -------------------------------- *)
MaxLines == 2      \* longest input file, in lines
MaxEntries == 3    \* longest collection the model lets ingestion build

(* ------------------------------ Option -------------------------------- *)
None == [some |-> FALSE]
Some(v) == [some |-> TRUE, val |-> v]

(* -------------------------- character classes ------------------------- *)
Digits == {"0", "1", "2", "3", "4", "5", "6", "7", "8", "9"}
Letters == {"a", "b", "c", "d", "e", "f", "g", "h", "i", "j", "k", "l", "m",
            "n", "o", "p", "q", "r", "s", "t", "u", "v", "w", "x", "y", "z",
            "A", "B", "C", "D", "E", "F", "G", "H", "I", "J", "K", "L", "M",
            "N", "O", "P", "Q", "R", "S", "T", "U", "V", "W", "X", "Y", "Z"}
Whitespace == {" ", "\t"}
WordChars == Digits \cup Letters \cup {"_"}

DigitVal(c) ==
  CASE c = "0" -> 0 [] c = "1" -> 1 [] c = "2" -> 2 [] c = "3" -> 3
    [] c = "4" -> 4 [] c = "5" -> 5 [] c = "6" -> 6 [] c = "7" -> 7
    [] c = "8" -> 8 [] c = "9" -> 9

\* the character of s at position i, or "" outside s
At(s, i) == IF i >= 1 /\ i <= Len(s) THEN s[i] ELSE ""

IsDigitAt(s, i) == At(s, i) \in Digits
IsSpaceAt(s, i) == At(s, i) \in Whitespace
IsWordAt(s, i) == At(s, i) \in WordChars

\* regex \b between positions i-1 and i
WordBoundary(s, i) == IsWordAt(s, i - 1) # IsWordAt(s, i)

\* the literal w occurs in s at position i
MatchLit(s, i, w) ==
  /\ i >= 1
  /\ i + Len(w) - 1 <= Len(s)
  /\ \A k \in 1..Len(w) : s[i + k - 1] = w[k]

\* template match: "d" a digit, "a" a letter, "s" a sign, others literal
MatchTmpl(s, i, t) ==
  /\ i >= 1
  /\ i + Len(t) - 1 <= Len(s)
  /\ \A k \in 1..Len(t) :
       CASE t[k] = "d" -> s[i + k - 1] \in Digits
         [] t[k] = "a" -> s[i + k - 1] \in Letters
         [] t[k] = "s" -> s[i + k - 1] \in {"+", "-"}
         [] OTHER -> s[i + k - 1] = t[k]

\* length of the maximal run of characters of class C starting at i
RECURSIVE RunLen(_, _, _)
RunLen(s, i, C) ==
  IF At(s, i) \in C THEN 1 + RunLen(s, i + 1, C) ELSE 0

\* length of the maximal run of characters outside class C starting at i
RECURSIVE RunLenNot(_, _, _)
RunLenNot(s, i, C) ==
  IF i <= Len(s) /\ s[i] \notin C THEN 1 + RunLenNot(s, i + 1, C) ELSE 0

\* decimal value of the digit string s
RECURSIVE DecVal(_)
DecVal(s) ==
  IF Len(s) = 0 THEN 0
  ELSE 10 * DecVal(SubSeq(s, 1, Len(s) - 1)) + DigitVal(s[Len(s)])

\* str::trim().is_empty()
IsBlank(s) == \A i \in 1..Len(s) : s[i] \in Whitespace

(* ------------------------------ patterns ------------------------------ *)
\* each pattern P(s, i) is the length of its match starting at i, or 0

ApacheTmpl == <<"[", "d", "d", "/", "a", "a", "a", "/", "d", "d", "d", "d",
                ":", "d", "d", ":", "d", "d", ":", "d", "d", " ", "s",
                "d", "d", "d", "d", "]">>
IsoTmpl == <<"d", "d", "d", "d", "-", "d", "d", "-", "d", "d", " ",
             "d", "d", ":", "d", "d", ":", "d", "d">>
MillisTmpl == <<".", "d", "d", "d">>

TIMESTAMP_PATTERN(s, i) ==
  IF MatchTmpl(s, i, ApacheTmpl) THEN Len(ApacheTmpl)
  ELSE IF MatchTmpl(s, i, IsoTmpl)
  THEN LET f == IF MatchTmpl(s, i + Len(IsoTmpl), MillisTmpl)
                THEN Len(MillisTmpl) ELSE 0
           z == IF At(s, i + Len(IsoTmpl) + f) = "Z" THEN 1 ELSE 0
       IN  Len(IsoTmpl) + f + z
  ELSE 0

LevelWords == {<<"D", "E", "B", "U", "G">>, <<"I", "N", "F", "O">>,
               <<"W", "A", "R", "N", "I", "N", "G">>,
               <<"E", "R", "R", "O", "R">>, <<"F", "A", "T", "A", "L">>}

LEVEL_PATTERN(s, i) ==
  IF \E w \in LevelWords : MatchLit(s, i, w)
  THEN Len(CHOOSE w \in LevelWords : MatchLit(s, i, w))
  ELSE 0

\* one group [0-9]{1,3} starting at i: the position behind it, 0 when the
\* run of digits at i is empty or longer (i = 0: nothing to continue)
OctetEnd(s, i) ==
  IF i > 0 /\ RunLen(s, i, Digits) \in 1..3
  THEN i + RunLen(s, i, Digits) ELSE 0

\* "." and one more group starting at j: the position behind them, or 0
DotOctetEnd(s, j) ==
  IF j > 0 /\ At(s, j) = "." THEN OctetEnd(s, j + 1) ELSE 0

\* the match from i to the position e behind it, between two \b
IpSpan(s, i, e) ==
  IF e > 0 /\ WordBoundary(s, i) /\ WordBoundary(s, e) THEN e - i ELSE 0

IP_PATTERN(s, i) ==
  IpSpan(s, i, DotOctetEnd(s, DotOctetEnd(s, DotOctetEnd(s, OctetEnd(s, i)))))

MethodWords == {<<"G", "E", "T">>, <<"P", "O", "S", "T">>, <<"P", "U", "T">>,
                <<"D", "E", "L", "E", "T", "E">>,
                <<"P", "A", "T", "C", "H">>, <<"H", "E", "A", "D">>,
                <<"O", "P", "T", "I", "O", "N", "S">>}

\* the method word at i, <<>> when there is none
MethodWordAt(s, i) ==
  IF \E w \in MethodWords : MatchLit(s, i, w)
  THEN CHOOSE w \in MethodWords : MatchLit(s, i, w)
  ELSE <<>>

\* the method word w at i, between two \b
MethodSpan(s, i, w) ==
  IF Len(w) > 0 /\ WordBoundary(s, i) /\ WordBoundary(s, i + Len(w))
  THEN Len(w) ELSE 0

METHOD_PATTERN(s, i) == MethodSpan(s, i, MethodWordAt(s, i))

\* (?:GET|...) ([^\s"]+) : group 1 starts at i + Len(word) + 1
EndpointStop == Whitespace \cup {"\""}

\* the method word w at i, one space, and the run up to a space or quote
EndpointSpan(s, i, w) ==
  IF /\ Len(w) > 0
     /\ At(s, i + Len(w)) = " "
     /\ RunLenNot(s, i + Len(w) + 1, EndpointStop) > 0
  THEN Len(w) + 1 + RunLenNot(s, i + Len(w) + 1, EndpointStop) ELSE 0

ENDPOINT_PATTERN(s, i) == EndpointSpan(s, i, MethodWordAt(s, i))

\* (\d{3})\s+ at j, behind the n > 0 whitespace characters of \s+
StatusSpan(s, j, n) ==
  IF /\ n > 0
     /\ IsDigitAt(s, j) /\ IsDigitAt(s, j + 1) /\ IsDigitAt(s, j + 2)
     /\ IsSpaceAt(s, j + 3)
  THEN n + 3 + RunLen(s, j + 3, Whitespace) ELSE 0

\* \s+(\d{3})\s+
STATUS_PATTERN(s, i) ==
  StatusSpan(s, i + RunLen(s, i, Whitespace), RunLen(s, i, Whitespace))

\* (?:\.\d+)? behind the n digits of \d+ at i: the length of \d+(?:\.\d+)?
WithFraction(s, i, n) ==
  IF n = 0 THEN 0
  ELSE IF At(s, i + n) = "." /\ IsDigitAt(s, i + n + 1)
  THEN n + 1 + RunLen(s, i + n + 1, Digits)
  ELSE n

\* length of \d+(?:\.\d+)? at i when what follows it is \s*(?:ms|s)
NumberLen(s, i) == WithFraction(s, i, RunLen(s, i, Digits))

\* length of (?:ms|s) at i
UnitLen(s, i) ==
  IF At(s, i) = "m" /\ At(s, i + 1) = "s" THEN 2
  ELSE IF At(s, i) = "s" THEN 1 ELSE 0

\* (?:ms|s) at k: the position behind it, or 0
UnitEnd(s, k) == IF UnitLen(s, k) > 0 THEN k + UnitLen(s, k) ELSE 0

\* \s*(?:ms|s) at j, behind a number: the position behind it, or 0
SpaceUnitEnd(s, j) == UnitEnd(s, j + RunLen(s, j, Whitespace))

\* the match from i to the position e behind it, its number of length n
ResponseTimeSpan(i, n, e) == IF n > 0 /\ e > 0 THEN e - i ELSE 0

RESPONSE_TIME_PATTERN(s, i) ==
  ResponseTimeSpan(i, NumberLen(s, i), SpaceUnitEnd(s, i + NumberLen(s, i)))

\* \s+(.+)$ behind a response time of length r at i: the match runs to the
\* end of the line
MessageSpan(s, i, r) ==
  IF r > 0 /\ IsSpaceAt(s, i + r) /\ i + r + 1 <= Len(s)
  THEN Len(s) - i + 1 ELSE 0

\* \d+(?:\.\d+)?\s*(?:ms|s)\s+(.+)$
MESSAGE_PATTERN(s, i) == MessageSpan(s, i, RESPONSE_TIME_PATTERN(s, i))

\* start of group 1 behind the whitespace at j: \s+ is greedy and gives
\* back one character only when it reached the end of the line
MessageGroup(s, j) ==
  IF j + RunLen(s, j, Whitespace) > Len(s) THEN Len(s)
  ELSE j + RunLen(s, j, Whitespace)

\* start of group 1 of MESSAGE_PATTERN for the match at i
MessageStart(s, i) == MessageGroup(s, i + RESPONSE_TIME_PATTERN(s, i))

\* (\d{4}-\d{2}-\d{2})
DateTmpl == <<"d", "d", "d", "d", "-", "d", "d", "-", "d", "d">>

DATE_EXTRACT_PATTERN(s, i) ==
  IF MatchTmpl(s, i, DateTmpl) THEN Len(DateTmpl) ELSE 0

(* ---------------------------- sample inputs ---------------------------- *)
\* "2024-01-16 10:00:00 INFO 10.0.0.1 GET /a 200 50ms ok"
LineInfo ==
  <<"2", "0", "2", "4", "-", "0", "1", "-", "1", "6", " ", "1", "0", ":",
    "0", "0", ":", "0", "0", " ", "I", "N", "F", "O", " ", "1", "0", ".",
    "0", ".", "0", ".", "1", " ", "G", "E", "T", " ", "/", "a", " ", "2",
    "0", "0", " ", "5", "0", "m", "s", " ", "o", "k">>

\* "2024-01-17 10:00:00 ERROR POST /api/products 500 200ms fail"
LineError ==
  <<"2", "0", "2", "4", "-", "0", "1", "-", "1", "7", " ", "1", "0", ":",
    "0", "0", ":", "0", "0", " ", "E", "R", "R", "O", "R", " ", "P", "O",
    "S", "T", " ", "/", "a", "p", "i", "/", "p", "r", "o", "d", "u", "c",
    "t", "s", " ", "5", "0", "0", " ", "2", "0", "0", "m", "s", " ", "f",
    "a", "i", "l">>

\* "[17/Jan/2024:10:00:00 +0000] WARNING GET /b 404 100ms"
LineApache ==
  <<"[", "1", "7", "/", "J", "a", "n", "/", "2", "0", "2", "4", ":", "1",
    "0", ":", "0", "0", ":", "0", "0", " ", "+", "0", "0", "0", "0", "]",
    " ", "W", "A", "R", "N", "I", "N", "G", " ", "G", "E", "T", " ", "/",
    "b", " ", "4", "0", "4", " ", "1", "0", "0", "m", "s">>

\* "2024-01-20 10:00:00 DEBUG GET /a"
LineDebug ==
  <<"2", "0", "2", "4", "-", "0", "1", "-", "2", "0", " ", "1", "0", ":",
    "0", "0", ":", "0", "0", " ", "D", "E", "B", "U", "G", " ", "G", "E",
    "T", " ", "/", "a">>

\* "2024-13-45 10:00:00 ERROR GET /a 300ms"
LineBadDate ==
  <<"2", "0", "2", "4", "-", "1", "3", "-", "4", "5", " ", "1", "0", ":",
    "0", "0", ":", "0", "0", " ", "E", "R", "R", "O", "R", " ", "G", "E",
    "T", " ", "/", "a", " ", "3", "0", "0", "m", "s">>

\* "2024-01-16 10:00:00 INFO HEAD /a 200 50ms"
LineHead ==
  <<"2", "0", "2", "4", "-", "0", "1", "-", "1", "6", " ", "1", "0", ":",
    "0", "0", ":", "0", "0", " ", "I", "N", "F", "O", " ", "H", "E", "A",
    "D", " ", "/", "a", " ", "2", "0", "0", " ", "5", "0", "m", "s">>

\* "2024-01-16 10:00:00 INFO 999.0.0.1 GET /a 200 50ms"
LineBigOctet ==
  <<"2", "0", "2", "4", "-", "0", "1", "-", "1", "6", " ", "1", "0", ":",
    "0", "0", ":", "0", "0", " ", "I", "N", "F", "O", " ", "9", "9", "9",
    ".", "0", ".", "0", ".", "1", " ", "G", "E", "T", " ", "/", "a", " ",
    "2", "0", "0", " ", "5", "0", "m", "s">>

\* "hello world"
LineGarbage ==
  <<"h", "e", "l", "l", "o", " ", "w", "o", "r", "l", "d">>

\* " \t"
LineSpaces ==
  <<" ", "\t">>

\* "2024-01-16"
Date16 ==
  <<"2", "0", "2", "4", "-", "0", "1", "-", "1", "6">>

\* "2024-01-18"
Date18 ==
  <<"2", "0", "2", "4", "-", "0", "1", "-", "1", "8">>

\* "2024-13-01"
DateBad ==
  <<"2", "0", "2", "4", "-", "1", "3", "-", "0", "1">>

\* "api/prod"
PatApiProd ==
  <<"a", "p", "i", "/", "p", "r", "o", "d">>

\* "/."
PatDot ==
  <<"/", ".">>

\* "/b"
PatB ==
  <<"/", "b">>

\* "INFO"
LevelINFO ==
  <<"I", "N", "F", "O">>

\* "WARNING"
LevelWARNING ==
  <<"W", "A", "R", "N", "I", "N", "G">>

\* "ERROR"
LevelERROR ==
  <<"E", "R", "R", "O", "R">>

\* "DEBUG"
LevelDEBUG ==
  <<"D", "E", "B", "U", "G">>

LineEmpty == <<>>

(* ------------------- Regex::find / Regex::captures -------------------- *)
\* lens[i] is the length of the pattern's match starting at position i of
\* the text, or 0
MatchStarts(lens) == {i \in 1..Len(lens) : lens[i] > 0}

\* the match starting at the least position of S
LeftmostOf(lens, S) ==
  IF S = {} THEN None
  ELSE Some([start |-> CHOOSE k \in S : \A j \in S : k <= j,
             len |-> lens[CHOOSE k \in S : \A j \in S : k <= j]])

\* Regex::find / Regex::captures: the leftmost match, Some([start, len])
Find(lens) == LeftmostOf(lens, MatchStarts(lens))

\* Option<Match>::map(|m| m.as_str()) on the text s
MatchText(s, m) ==
  IF m.some THEN Some(SubSeq(s, m.val.start, m.val.start + m.val.len - 1))
  ELSE None

\* group 1 of the ENDPOINT_PATTERN match m in s
EndpointCapture(s, m) ==
  IF m.some
  THEN Some(SubSeq(s, m.val.start + Len(MethodWordAt(s, m.val.start)) + 1,
                   m.val.start + m.val.len - 1))
  ELSE None

\* group 1 of the STATUS_PATTERN match m in s
StatusCapture(s, m) ==
  IF m.some
  THEN Some(SubSeq(s, m.val.start + RunLen(s, m.val.start, Whitespace),
                   m.val.start + RunLen(s, m.val.start, Whitespace) + 2))
  ELSE None

\* group 1 of the RESPONSE_TIME_PATTERN match m in s
ResponseTimeCapture(s, m) ==
  IF m.some
  THEN Some(SubSeq(s, m.val.start,
                   m.val.start + NumberLen(s, m.val.start) - 1))
  ELSE None

\* group 1 of the MESSAGE_PATTERN match m in s
MessageCapture(s, m) ==
  IF m.some THEN Some(SubSeq(s, MessageStart(s, m.val.start), Len(s)))
  ELSE None


(* ---------------------------- conversions ----------------------------- *)
\* impl FromStr for LogLevel
LogLevel_from_str(w) ==
  IF w = <<"I", "N", "F", "O">> THEN Some("Info")
  ELSE IF w = <<"W", "A", "R", "N", "I", "N", "G">> THEN Some("Warning")
  ELSE IF w = <<"E", "R", "R", "O", "R">> THEN Some("Error")
  ELSE None

\* impl Display for LogLevel
LogLevel_to_string(l) ==
  CASE l = "Info" -> <<"I", "N", "F", "O">>
    [] l = "Warning" -> <<"W", "A", "R", "N", "I", "N", "G">>
    [] l = "Error" -> <<"E", "R", "R", "O", "R">>

\* impl FromStr for LogMethod
LogMethod_from_str(w) ==
  IF w = <<"G", "E", "T">> THEN Some("Get")
  ELSE IF w = <<"P", "O", "S", "T">> THEN Some("Post")
  ELSE IF w = <<"P", "A", "T", "C", "H">> THEN Some("Patch")
  ELSE IF w = <<"P", "U", "T">> THEN Some("Put")
  ELSE IF w = <<"D", "E", "L", "E", "T", "E">> THEN Some("Delete")
  ELSE None

\* str::trim_matches(&['[', ']'])
RECURSIVE trim_matches(_, _)
trim_matches(w, C) ==
  IF Len(w) > 0 /\ w[1] \in C THEN trim_matches(Tail(w), C)
  ELSE IF Len(w) > 0 /\ w[Len(w)] \in C
  THEN trim_matches(SubSeq(w, 1, Len(w) - 1), C)
  ELSE w

\* one octet of a dotted quad: decimal, at most 255, no leading zero
OctetOk(w) == DecVal(w) <= 255 /\ (Len(w) = 1 \/ w[1] # "0")

\* the dotted quad w from position i on, as the texts of its octets
RECURSIVE Octets(_, _)
Octets(w, i) ==
  IF i > Len(w) THEN <<>>
  ELSE <<SubSeq(w, i, i + RunLen(w, i, Digits) - 1)>>
         \o Octets(w, i + RunLen(w, i, Digits) + 1)

\* the address of four octet texts, when each is an octet
IpAddr_of(o) ==
  IF \A k \in 1..Len(o) : OctetOk(o[k])
  THEN Some([k \in 1..Len(o) |-> DecVal(o[k])]) ELSE None

\* str::parse::<IpAddr> on text matched by IP_PATTERN: the four octets
IpAddr_from_str(w) == IpAddr_of(Octets(w, 1))

\* str::parse::<u16> on three digits
u16_from_str(w) == IF DecVal(w) < 65536 THEN Some(DecVal(w)) ELSE None

\* f64 values are kept as integers in units of 1/RTScale
RTScale == 1000

\* the first three fractional digits of w, as thousandths
Thousandths(w) ==
  100 * (IF Len(w) >= 1 THEN DigitVal(w[1]) ELSE 0)
  + 10 * (IF Len(w) >= 2 THEN DigitVal(w[2]) ELSE 0)
  + (IF Len(w) >= 3 THEN DigitVal(w[3]) ELSE 0)

\* the f64 of n integer digits of w and the fraction behind them
f64_of(w, n) ==
  Some(RTScale * DecVal(SubSeq(w, 1, n))
       + Thousandths(SubSeq(w, n + 2, Len(w))))

\* str::parse::<f64> on text matched by \d+(?:\.\d+)?
f64_from_str(w) == f64_of(w, RunLen(w, 1, Digits))

(* ------------------------------ LogEntry ------------------------------ *)
\* Result<T, E>, and the outcome of a call that panicked
Ok(v) == [kind |-> "Ok", val |-> v]
Err(e) == [kind |-> "Err", err |-> e]
Panic == [kind |-> "Panic"]

\* Option::and_then(|m| m.parse::<LogLevel>().ok()) of the level field
level_of(t) ==
  IF t.some THEN LogLevel_from_str(trim_matches(t.val, {"[", "]"})) ELSE None

\* Option::and_then(|m| m.parse::<IpAddr>().ok()) of the ip_address field
ip_address_of(t) == IF t.some THEN IpAddr_from_str(t.val) ELSE None

\* Option::and_then(|m| m.parse::<LogMethod>().ok()) of the method field
method_of(t) == IF t.some THEN LogMethod_from_str(t.val) ELSE None

\* Option::map(|m| m.parse::<u16>().ok()).flatten() of the status_code field
status_code_of(t) == IF t.some THEN u16_from_str(t.val) ELSE None

\* Option::map(|m| m.parse().ok()).flatten() of the response_time field
response_time_of(t) == IF t.some THEN f64_from_str(t.val) ELSE None

\* LogEntry::parse_log
parse_log(log_line) ==
  Ok([
    timestamp |->
      MatchText(log_line,
        Find([i \in 1..Len(log_line) |-> TIMESTAMP_PATTERN(log_line, i)])),
    level |->
      level_of(MatchText(log_line,
        Find([i \in 1..Len(log_line) |-> LEVEL_PATTERN(log_line, i)]))),
    ip_address |->
      ip_address_of(MatchText(log_line,
        Find([i \in 1..Len(log_line) |-> IP_PATTERN(log_line, i)]))),
    method |->
      method_of(MatchText(log_line,
        Find([i \in 1..Len(log_line) |-> METHOD_PATTERN(log_line, i)]))),
    endpoint |->
      EndpointCapture(log_line,
        Find([i \in 1..Len(log_line) |-> ENDPOINT_PATTERN(log_line, i)])),
    status_code |->
      status_code_of(StatusCapture(log_line,
        Find([i \in 1..Len(log_line) |-> STATUS_PATTERN(log_line, i)]))),
    response_time |->
      response_time_of(ResponseTimeCapture(log_line,
        Find([i \in 1..Len(log_line)
                |-> RESPONSE_TIME_PATTERN(log_line, i)]))),
    message |->
      MessageCapture(log_line,
        Find([i \in 1..Len(log_line) |-> MESSAGE_PATTERN(log_line, i)])) ])

(* ------------------------- LogEntry of lib.rs ------------------------- *)
\* Option::map(|m| m.parse::<LogLevel>().unwrap()) of the level field
lib_level_of(t) ==
  IF ~t.some THEN None
  ELSE IF LogLevel_from_str(t.val).some THEN LogLevel_from_str(t.val)
  ELSE Panic

\* Option::map(|m| m.parse::<IpAddr>().unwrap()) of the ip_address field
lib_ip_address_of(t) ==
  IF ~t.some THEN None
  ELSE IF IpAddr_from_str(t.val).some THEN IpAddr_from_str(t.val)
  ELSE Panic

\* Option::map(|m| m.parse::<LogMethod>().unwrap()) of the method field
lib_method_of(t) ==
  IF ~t.some THEN None
  ELSE IF LogMethod_from_str(t.val).some THEN LogMethod_from_str(t.val)
  ELSE Panic

\* the struct expression Self { .. }: a panic in a field expression leaves
\* no record
lib_entry(timestamp, level, ip_address, method, endpoint, status_code, response_time, message) ==
  IF level = Panic \/ ip_address = Panic \/ method = Panic THEN Panic
  ELSE Ok([ timestamp |-> timestamp, level |-> level,
            ip_address |-> ip_address, method |-> method,
            endpoint |-> endpoint, status_code |-> status_code,
            response_time |-> response_time, message |-> message ])

\* LogEntry::parse_log of lib.rs, its patterns those of log_analyzer.rs;
\* Ok wraps the Self it returns
lib_parse_log(log_line) ==
  lib_entry(
    MatchText(log_line,
      Find([i \in 1..Len(log_line) |-> TIMESTAMP_PATTERN(log_line, i)])),
    lib_level_of(MatchText(log_line,
      Find([i \in 1..Len(log_line) |-> LEVEL_PATTERN(log_line, i)]))),
    lib_ip_address_of(MatchText(log_line,
      Find([i \in 1..Len(log_line) |-> IP_PATTERN(log_line, i)]))),
    lib_method_of(MatchText(log_line,
      Find([i \in 1..Len(log_line) |-> METHOD_PATTERN(log_line, i)]))),
    EndpointCapture(log_line,
      Find([i \in 1..Len(log_line) |-> ENDPOINT_PATTERN(log_line, i)])),
    status_code_of(StatusCapture(log_line,
      Find([i \in 1..Len(log_line) |-> STATUS_PATTERN(log_line, i)]))),
    response_time_of(ResponseTimeCapture(log_line,
      Find([i \in 1..Len(log_line) |-> RESPONSE_TIME_PATTERN(log_line, i)]))),
    MessageCapture(log_line,
      Find([i \in 1..Len(log_line) |-> MESSAGE_PATTERN(log_line, i)])))

(* ------------------------ chrono::NaiveDate --------------------------- *)
IsLeap(y) == (y % 4 = 0 /\ y % 100 # 0) \/ y % 400 = 0

DaysInMonth(y, m) ==
  IF m = 2 THEN (IF IsLeap(y) THEN 29 ELSE 28)
  ELSE IF m \in {4, 6, 9, 11} THEN 30 ELSE 31

\* from_ymd_opt without the check of the month
from_ymd_opt_mut(y, m, d) ==
  IF d >= 1 /\ d <= DaysInMonth(y, m) THEN Some(<<y, m, d>>) ELSE None

\* NaiveDate::from_ymd_opt: the date <<y, m, d>> when it exists
from_ymd_opt(y, m, d) ==
  IF m >= 1 /\ m <= 12 /\ d >= 1 /\ d <= DaysInMonth(y, m)
  THEN Some(<<y, m, d>>) ELSE None

\* a numeric item of the format: at least one and at most max digits
NumItemLen(s, i, max) ==
  LET n == RunLen(s, i, Digits) IN IF n > max THEN max ELSE n

\* NaiveDate::parse_from_str(s, "%Y-%m-%d") for text without sign or spaces:
\* Ok(date), or Err("DateParseError") for text that is no calendar date
NaiveDate_parse_from_str(s) ==
  LET ny == NumItemLen(s, 1, 4)
      im == ny + 2
      nm == NumItemLen(s, im, 2)
      id == im + nm + 1
      nd == NumItemLen(s, id, 2)
      date == from_ymd_opt(DecVal(SubSeq(s, 1, ny)),
                           DecVal(SubSeq(s, im, im + nm - 1)),
                           DecVal(SubSeq(s, id, id + nd - 1)))
  IN  IF /\ ny > 0 /\ At(s, ny + 1) = "-"
         /\ nm > 0 /\ At(s, im + nm) = "-"
         /\ nd > 0 /\ id + nd - 1 = Len(s)
         /\ date.some
      THEN Ok(date.val) ELSE Err("DateParseError")

\* Ord for NaiveDate
DateLe(a, b) ==
  \/ a[1] < b[1]
  \/ a[1] = b[1] /\ a[2] < b[2]
  \/ a[1] = b[1] /\ a[2] = b[2] /\ a[3] <= b[3]

\* Option::and_then(|m| NaiveDate::parse_from_str(m.as_str(), ..).ok())
date_of(d) == IF d.kind = "Ok" THEN Some(d.val) ELSE None

\* the date of the text t matched by DATE_EXTRACT_PATTERN, if any
date_in(t) ==
  IF t.some THEN date_of(NaiveDate_parse_from_str(t.val)) ELSE None

\* DATE_EXTRACT_PATTERN.find(ts) on the timestamp text ts
find_date(ts) ==
  date_in(MatchText(ts,
    Find([i \in 1..Len(ts) |-> DATE_EXTRACT_PATTERN(ts, i)])))

\* LogEntry::extract_date
extract_date(e) ==
  IF e.timestamp.some THEN find_date(e.timestamp.val) ELSE None

(* ------------------------------- regex -------------------------------- *)
RegexMeta == {"\\", ".", "+", "*", "?", "(", ")", "|", "[", "]", "{", "}",
              "^", "$", "#", "&", "-", "~"}

\* regex::escape
RECURSIVE regex_escape(_)
regex_escape(p) ==
  IF Len(p) = 0 THEN <<>>
  ELSE (IF p[1] \in RegexMeta THEN <<"\\", p[1]>> ELSE <<p[1]>>)
       \o regex_escape(Tail(p))

\* Regex::new on an escaped pattern: the literal characters it matches
RECURSIVE Regex_new(_)
Regex_new(x) ==
  IF Len(x) = 0 THEN <<>>
  ELSE IF x[1] = "\\" THEN <<x[2]>> \o Regex_new(SubSeq(x, 3, Len(x)))
  ELSE <<x[1]>> \o Regex_new(Tail(x))

\* Regex::is_match for a pattern of literals: an unanchored search
is_match(lits, text) == \E i \in 1..(Len(text) + 1) : MatchLit(text, i, lits)

(* ------------------------------- filters ------------------------------ *)
\* Iterator::filter over self.entries.iter(): the kept positions S of the
\* entries in iteration order; an item is the reference &entries[i]
RECURSIVE Ascending(_)
Ascending(S) ==
  IF S = {} THEN <<>>
  ELSE LET m == CHOOSE x \in S : \A y \in S : x <= y
       IN  <<m>> \o Ascending(S \ {m})

\* filter_by_level with unwrap_or(true): a record without level is yielded
filter_by_level_mut(v, log_level) ==
  LET parsed == LogLevel_from_str(log_level)
  IN  IF ~parsed.some /\ \E i \in 1..Len(v) : v[i].level.some
      THEN Panic
      ELSE Ok(Ascending({i \in 1..Len(v) :
                IF v[i].level.some
                THEN LogLevel_to_string(v[i].level.val)
                       = LogLevel_to_string(parsed.val)
                ELSE TRUE}))

\* Logs::filter_by_level, its iterator collected
filter_by_level(v, log_level) ==
  LET parsed == LogLevel_from_str(log_level)
  IN  IF ~parsed.some /\ \E i \in 1..Len(v) : v[i].level.some
      THEN Panic
      ELSE Ok(Ascending({i \in 1..Len(v) :
                IF v[i].level.some
                THEN LogLevel_to_string(v[i].level.val)
                       = LogLevel_to_string(parsed.val)
                ELSE FALSE}))

\* Logs::filter_by_date_range, its iterator collected
filter_by_date_range(v, start, end) ==
  LET s == NaiveDate_parse_from_str(start)
      t == NaiveDate_parse_from_str(end)
  IN  IF s.kind = "Err" THEN s
      ELSE IF t.kind = "Err" THEN t
      ELSE Ok(Ascending({i \in 1..Len(v) :
                LET d == extract_date(v[i])
                IN  IF d.some
                    THEN DateLe(s.val, d.val) /\ DateLe(d.val, t.val)
                    ELSE FALSE}))

\* Logs::filter_by_endpoint, its iterator collected
filter_by_endpoint(v, pattern) ==
  LET endpoint_pattern == Regex_new(regex_escape(pattern))
  IN  Ok(Ascending({i \in 1..Len(v) :
           IF v[i].endpoint.some
           THEN is_match(endpoint_pattern, v[i].endpoint.val)
           ELSE FALSE}))

(* ------------------------------ LogStats ------------------------------ *)
\* Bump with the count of a key set to 1 again at every occurrence
Bump_mut(map, k) == (k :> 1) @@ map

\* HashMap::entry(k).and_modify(|count| *count += 1).or_insert(1)
Bump(map, k) ==
  IF k \in DOMAIN map THEN [map EXCEPT ![k] = @ + 1] ELSE map @@ (k :> 1)

\* bump_errors with the level of the record not looked at
bump_errors_mut(map, entry) ==
  IF entry.endpoint.some THEN Bump(map, entry.endpoint.val) ELSE map

\* errors_by_endpoint after the match on entry.level: bumped in the Error
\* arm alone, and there only if let Some(endpoint)
bump_errors(map, entry) ==
  IF entry.level.some /\ entry.level.val = "Error" /\ entry.endpoint.some
  THEN Bump(map, entry.endpoint.val)
  ELSE map

\* bump_level with a record that has no level counted in every bucket
bump_level_mut(count, entry, level) ==
  IF ~entry.level.some \/ entry.level.val = level THEN count + 1 ELSE count

\* a level counter of from_entries after the match on entry.level, for the
\* arm of the given level
bump_level(count, entry, level) ==
  IF entry.level.some /\ entry.level.val = level THEN count + 1 ELSE count

\* the body of the loop over the entries in LogStats::from_entries
accumulate(acc, entry) ==
  [ info_count |-> bump_level(acc.info_count, entry, "Info"),
    warning_count |-> bump_level(acc.warning_count, entry, "Warning"),
    error_count |-> bump_level(acc.error_count, entry, "Error"),
    errors_by_endpoint |-> bump_errors(acc.errors_by_endpoint, entry),
    endpoint_frequency |->
      IF entry.endpoint.some
      THEN Bump(acc.endpoint_frequency, entry.endpoint.val)
      ELSE acc.endpoint_frequency,
    sum_response_time |->
      IF entry.response_time.some
      THEN acc.sum_response_time + entry.response_time.val
      ELSE acc.sum_response_time ]

\* the loop: the entries from position i on, folded into acc
RECURSIVE fold_entries(_, _, _)
fold_entries(entries, i, acc) ==
  IF i > Len(entries) THEN acc
  ELSE fold_entries(entries, i + 1, accumulate(acc, entries[i]))

\* PartialOrd for Option<f64>: None is less than every Some
partial_cmp(x, y) ==
  IF ~x.some /\ ~y.some THEN "Equal"
  ELSE IF ~x.some THEN "Less"
  ELSE IF ~y.some THEN "Greater"
  ELSE IF x.val < y.val THEN "Less"
  ELSE IF x.val > y.val THEN "Greater"
  ELSE "Equal"

\* sort_compare with its operands swapped: an ascending sort
sort_compare_mut(a, b) == partial_cmp(a.response_time, b.response_time)

\* the closure given to sort_by: the ordering of a relative to b
sort_compare(a, b) == partial_cmp(b.response_time, a.response_time)

\* x placed into the sorted v behind every element it is not Less than
RECURSIVE insert_sorted(_, _)
insert_sorted(x, v) ==
  IF Len(v) = 0 THEN <<x>>
  ELSE IF sort_compare(x, v[1]) = "Less" THEN <<x>> \o v
  ELSE <<v[1]>> \o insert_sorted(x, Tail(v))

\* slice::sort_by, a stable sort: v[1..n] sorted
RECURSIVE sort_by(_, _)
sort_by(v, n) ==
  IF n = 0 THEN <<>> ELSE insert_sorted(v[n], sort_by(v, n - 1))

\* avg_denominator as the number of records that have a response_time
avg_denominator_mut(entries) ==
  Cardinality({i \in 1..Len(entries) : entries[i].response_time.some})

\* total_requests as f64, the divisor of the average
avg_denominator(entries) == Len(entries)

\* f64 division, kept as the fraction num/den; 0.0/0.0 is NaN
f64_div(num, den) == [num |-> num, den |-> den]

\* LogStats::from_entries
from_entries(entries) ==
  LET acc == fold_entries(entries, 1,
               [ info_count |-> 0, warning_count |-> 0, error_count |-> 0,
                 errors_by_endpoint |-> <<>>, endpoint_frequency |-> <<>>,
                 sum_response_time |-> 0 ])
  IN  [ total_requests |-> Len(entries),
        info_count |-> acc.info_count,
        warning_count |-> acc.warning_count,
        error_count |-> acc.error_count,
        avg_response_time |->
          f64_div(acc.sum_response_time, avg_denominator(entries)),
        endpoint_frequency |-> acc.endpoint_frequency,
        errors_by_endpoint |-> acc.errors_by_endpoint,
        slowest_requests |-> sort_by(entries, Len(entries)) ]

(* ----------------------------- ingestion ------------------------------ *)
\* the texts of the lines a file of the model can hold
LineTexts ==
  {LineInfo, LineError, LineApache, LineDebug, LineBadDate, LineGarbage}

\* the texts parse_log is called on: those, and lines whose method or
\* address is matched but cannot be converted
ParseTexts == LineTexts \cup {LineHead, LineBigOctet}

\* LogEntry::parse_log(&line) for each of these texts, evaluated once
parse_log_of == [log_line \in ParseTexts |-> parse_log(log_line)]

\* LogEntry::parse_log of lib.rs for each of these texts, evaluated once
lib_parse_log_of == [log_line \in ParseTexts |-> lib_parse_log(log_line)]

\* String::from("IO Error: failed to read line")
IoErrorContent ==
  <<"I", "O", " ", "E", "r", "r", "o", "r", ":", " ", "f", "a", "i", "l",
    "e", "d", " ", "t", "o", " ", "r", "e", "a", "d", " ", "l", "i", "n",
    "e">>

\* push_parsed with the record put in front of the entries
push_parsed_mut(acc, line_number, line, parse_result) ==
  IF parse_result.kind = "Ok"
  THEN [acc EXCEPT !.entries = <<parse_result.val>> \o @]
  ELSE [acc EXCEPT !.warnings =
          Append(@, [ line_number |-> line_number,
                      line_content |-> line,
                      error |-> parse_result.err ])]

\* the match on parse_result: a record pushed, or a warning for the line
push_parsed(acc, line_number, line, parse_result) ==
  IF parse_result.kind = "Ok"
  THEN [acc EXCEPT !.entries = Append(@, parse_result.val)]
  ELSE [acc EXCEPT !.warnings =
          Append(@, [ line_number |-> line_number,
                      line_content |-> line,
                      error |-> parse_result.err ])]

\* the body of the loop of Logs::read_and_parse_log for one line_result
scan_line(acc, line_number, line_result) ==
  IF line_result.kind = "Ok"
  THEN IF IsBlank(line_result.val) THEN acc
       ELSE push_parsed(acc, line_number, line_result.val,
                        parse_log_of[line_result.val])
  ELSE [acc EXCEPT !.warnings =
          Append(@, [ line_number |-> line_number,
                      line_content |-> IoErrorContent,
                      error |-> line_result.err ])]

\* the loop over reader.lines().enumerate(), from the line numbered n on
RECURSIVE scan_lines(_, _, _)
scan_lines(lines, n, acc) ==
  IF n > Len(lines) THEN acc
  ELSE scan_lines(lines, n + 1, scan_line(acc, n, lines[n]))

\* the end of Logs::read_and_parse_log: the entries left and the value
\* returned, given the state of the scan
finish_read(initial_count, scanned) ==
  [ entries |-> scanned.entries,
    result |->
      IF Len(scanned.entries) - initial_count = 0 THEN Err("EmptyLogFile")
      ELSE Ok([ warnings |-> scanned.warnings,
                entries_parsed |-> Len(scanned.entries) - initial_count ]) ]

\* Logs::read_and_parse_log: the entries it leaves and the value it returns;
\* file is Err(..) when File::open fails, else Ok(the lines read)
read_and_parse_log(ents, file) ==
  IF file.kind = "Err"
  THEN [entries |-> ents, result |-> Err("IoError")]
  ELSE finish_read(Len(ents),
         scan_lines(file.val, 1, [entries |-> ents, warnings |-> <<>>]))

(* ------------------------------- inputs ------------------------------- *)
\* the lines a file can hold: text, blank text, or bytes that are not UTF-8
RawLines ==
  {Ok(t) : t \in LineTexts \cup {LineEmpty, LineSpaces}}
    \cup {Err("InvalidData")}

RECURSIVE SeqsUpTo(_, _)
SeqsUpTo(S, n) ==
  IF n = 0 THEN {<<>>}
  ELSE LET R == SeqsUpTo(S, n - 1)
       IN  R \cup {Append(r, x) : r \in {q \in R : Len(q) = n - 1}, x \in S}

\* the outcomes of File::open and of reading the lines
Files == {Err("NotFound")} \cup {Ok(f) : f \in SeqsUpTo(RawLines, MaxLines)}

LevelArgs == {LevelINFO, LevelWARNING, LevelERROR, LevelDEBUG}
DateArgs == {Date16, Date18, DateBad}
PatternArgs == {PatApiProd, PatDot, PatB}

(* ---------------------------- state machine ---------------------------- *)
VARIABLES
  entries,   \* Logs::entries
  op,        \* the operation called last
  arg,       \* its arguments
  result     \* the value it returned, or Panic

vars == <<entries, op, arg, result>>

\* Logs::new
Init ==
  /\ entries = <<>>
  /\ op = "new"
  /\ arg = <<>>
  /\ result = Ok(<<>>)

\* a panic ends the program
Running == result.kind # "Panic"

ReadAndParseLog ==
  \E file \in Files :
    /\ Running
    /\ file.kind = "Ok" => Len(entries) + Len(file.val) <= MaxEntries
    /\ LET r == read_and_parse_log(entries, file)
       IN  /\ entries' = r.entries
           /\ result' = r.result
    /\ op' = "read_and_parse_log"
    /\ arg' = file

FilterByLevel ==
  \E log_level \in LevelArgs :
    /\ Running
    /\ result' = filter_by_level(entries, log_level)
    /\ op' = "filter_by_level"
    /\ arg' = log_level
    /\ UNCHANGED entries

FilterByDateRange ==
  \E start \in DateArgs, end \in DateArgs :
    /\ Running
    /\ result' = filter_by_date_range(entries, start, end)
    /\ op' = "filter_by_date_range"
    /\ arg' = [start |-> start, end |-> end]
    /\ UNCHANGED entries

FilterByEndpoint ==
  \E pattern \in PatternArgs :
    /\ Running
    /\ result' = filter_by_endpoint(entries, pattern)
    /\ op' = "filter_by_endpoint"
    /\ arg' = pattern
    /\ UNCHANGED entries

FromEntries ==
  /\ Running
  /\ result' = Ok(from_entries(entries))
  /\ op' = "from_entries"
  /\ arg' = <<>>
  /\ UNCHANGED entries

\* a direct call of LogEntry::parse_log
ParseLog ==
  \E log_line \in ParseTexts :
    /\ Running
    /\ result' = parse_log_of[log_line]
    /\ op' = "parse_log"
    /\ arg' = log_line
    /\ UNCHANGED entries

\* a direct call of LogEntry::parse_log of lib.rs
LibParseLog ==
  \E log_line \in ParseTexts :
    /\ Running
    /\ result' = lib_parse_log_of[log_line]
    /\ op' = "lib_parse_log"
    /\ arg' = log_line
    /\ UNCHANGED entries

Next ==
  \/ ParseLog
  \/ LibParseLog
  \/ ReadAndParseLog
  \/ FilterByLevel
  \/ FilterByDateRange
  \/ FilterByEndpoint
  \/ FromEntries

Spec == Init /\ [][Next]_vars

(* ======================= properties: ingestion ======================== *)
\* no field pattern of parse_log matches anywhere in the text t
NoPatternMatches(t) ==
  /\ ~Find([i \in 1..Len(t) |-> TIMESTAMP_PATTERN(t, i)]).some
  /\ ~Find([i \in 1..Len(t) |-> LEVEL_PATTERN(t, i)]).some
  /\ ~Find([i \in 1..Len(t) |-> IP_PATTERN(t, i)]).some
  /\ ~Find([i \in 1..Len(t) |-> METHOD_PATTERN(t, i)]).some
  /\ ~Find([i \in 1..Len(t) |-> ENDPOINT_PATTERN(t, i)]).some
  /\ ~Find([i \in 1..Len(t) |-> STATUS_PATTERN(t, i)]).some
  /\ ~Find([i \in 1..Len(t) |-> RESPONSE_TIME_PATTERN(t, i)]).some
  /\ ~Find([i \in 1..Len(t) |-> MESSAGE_PATTERN(t, i)]).some

\* the line is neither blank nor whitespace only (unreadable bytes count)
NonBlankLine(raw) == raw.kind = "Err" \/ ~IsBlank(raw.val)

\* the line is wholly unrecognizable text
Unrecognizable(raw) ==
  raw.kind = "Ok" /\ ~IsBlank(raw.val) /\ NoPatternMatches(raw.val)

\* the line yields no record: it cannot be read or is unrecognizable
FailsExtraction(raw) == raw.kind = "Err" \/ Unrecognizable(raw)

NonBlankPositions(lines) == {n \in 1..Len(lines) : NonBlankLine(lines[n])}
FailingPositions(lines) == {n \in 1..Len(lines) : FailsExtraction(lines[n])}

\* the step is a call of read_and_parse_log on a file that opened
ReadStep == op' = "read_and_parse_log" /\ arg'.kind = "Ok"

\* C1: a call of read_and_parse_log on a file with N non-blank lines of
\* which K fail extraction appends exactly N-K records; when it returns a
\* ParseResult, entries_parsed is N-K and the warnings are exactly K, one
\* per failing line, numbered by the 1-based position of the line in the
\* file, blank lines included in the numbering.
C1_RecordsAndWarnings ==
  [][ReadStep =>
       LET lines == arg'.val
           N == Cardinality(NonBlankPositions(lines))
           K == Cardinality(FailingPositions(lines))
       IN  /\ Len(entries') - Len(entries) = N - K
           /\ result'.kind = "Ok" =>
                /\ result'.val.entries_parsed = N - K
                /\ Len(result'.val.warnings) = K
                /\ {result'.val.warnings[k].line_number :
                      k \in 1..Len(result'.val.warnings)}
                     = FailingPositions(lines)]_vars

\* C2: a call of read_and_parse_log on an openable file with no non-blank
\* line, or whose non-blank lines all fail extraction, returns
\* Err(EmptyLogFile), which is not the IoError of a file that cannot be
\* opened, and leaves the entries unchanged.
C2_EmptyLogFile ==
  [][(ReadStep /\ NonBlankPositions(arg'.val) = FailingPositions(arg'.val))
       => /\ result' = Err("EmptyLogFile")
          /\ result' # Err("IoError")
          /\ entries' = entries]_vars

\* C3: a non-blank line in which no field pattern matches yields an
\* extraction error carrying the text: read_and_parse_log stores no record
\* for it, reports it as a warning (line number, raw line) when it returns
\* a ParseResult, and goes on with the following lines.
C3_UnrecognizableLineWarned ==
  [][ReadStep =>
       LET lines == arg'.val
           bad == {n \in 1..Len(lines) : Unrecognizable(lines[n])}
       IN  /\ \A n \in bad : parse_log(lines[n].val).kind = "Err"
           /\ Len(entries') - Len(entries)
                = Cardinality(NonBlankPositions(lines)
                                \ FailingPositions(lines))
           /\ result'.kind = "Ok" =>
                \A n \in bad :
                  \E k \in 1..Len(result'.val.warnings) :
                    /\ result'.val.warnings[k].line_number = n
                    /\ result'.val.warnings[k].line_content = lines[n].val]_vars

\* the text t holds a well-formed "METHOD /path" token: a method name that
\* LogMethod knows, one space, and a path that starts with "/"
HasMethodPathToken(t) ==
  \E i \in 1..Len(t) :
    /\ LogMethod_from_str(MethodWordAt(t, i)).some
    /\ WordBoundary(t, i)
    /\ At(t, i + Len(MethodWordAt(t, i))) = " "
    /\ At(t, i + Len(MethodWordAt(t, i)) + 1) = "/"

\* the text t holds a latency token: a number and the unit ms or s
HasLatencyToken(t) ==
  \E i \in 1..Len(t) : RESPONSE_TIME_PATTERN(t, i) > 0

\* the state is the one a call of read_and_parse_log on a file that opened
\* returned in
ReadState == op = "read_and_parse_log" /\ arg.kind = "Ok"

\* the texts of the lines of the file read that hold a METHOD /path token
MethodPathLines ==
  {arg.val[n].val :
     n \in {k \in 1..Len(arg.val) :
              arg.val[k].kind = "Ok" /\ HasMethodPathToken(arg.val[k].val)}}

\* C13: for a line that holds a well-formed METHOD /path token, parse_log
\* populates method, endpoint and response_time all together when the line
\* also holds a latency token, and none of the three when it holds none.
C13_MethodEndpointLatency ==
  ReadState =>
    \A t \in MethodPathLines :
      IF HasLatencyToken(t)
      THEN /\ parse_log_of[t].val.method.some
           /\ parse_log_of[t].val.endpoint.some
           /\ parse_log_of[t].val.response_time.some
      ELSE /\ ~parse_log_of[t].val.method.some
           /\ ~parse_log_of[t].val.endpoint.some
           /\ ~parse_log_of[t].val.response_time.some

\* the names LogLevel has a variant for
ValidLevelNames ==
  {<<"I", "N", "F", "O">>, <<"W", "A", "R", "N", "I", "N", "G">>,
   <<"E", "R", "R", "O", "R">>}

\* the state is the one a direct call of parse_log, in either version,
\* returned in
ParseState == op \in {"parse_log", "lib_parse_log"}

\* the leftmost token of each kind in the text t, None when there is none
LevelToken(t) == MatchText(t, Find([i \in 1..Len(t) |-> LEVEL_PATTERN(t, i)]))
IpToken(t) == MatchText(t, Find([i \in 1..Len(t) |-> IP_PATTERN(t, i)]))
MethodToken(t) == MatchText(t, Find([i \in 1..Len(t) |-> METHOD_PATTERN(t, i)]))

\* a level, address or method token that cannot be converted
BadLevelToken(t) ==
  LevelToken(t).some /\ LevelToken(t).val \notin ValidLevelNames
BadIpToken(t) ==
  IpToken(t).some /\ ~IpAddr_from_str(IpToken(t).val).some
BadMethodToken(t) ==
  MethodToken(t).some /\ ~LogMethod_from_str(MethodToken(t).val).some

\* C14: parse_log, in the version of log_analyzer.rs and in that of lib.rs,
\* never fails or panics: it returns a record, in which a level, address or
\* method token that cannot be converted leaves that one field absent, and
\* every other field is present exactly when its token is in the line.
C14_ParseNeverPanics ==
  ParseState =>
    /\ result.kind = "Ok"
    /\ result.val.level.some <=> (LevelToken(arg).some /\ ~BadLevelToken(arg))
    /\ result.val.ip_address.some <=> (IpToken(arg).some /\ ~BadIpToken(arg))
    /\ result.val.method.some
         <=> (MethodToken(arg).some /\ ~BadMethodToken(arg))
    /\ result.val.timestamp.some
         <=> \E i \in 1..Len(arg) : TIMESTAMP_PATTERN(arg, i) > 0
    /\ result.val.endpoint.some
         <=> \E i \in 1..Len(arg) : ENDPOINT_PATTERN(arg, i) > 0
    /\ result.val.status_code.some
         <=> \E i \in 1..Len(arg) : STATUS_PATTERN(arg, i) > 0
    /\ result.val.response_time.some
         <=> \E i \in 1..Len(arg) : RESPONSE_TIME_PATTERN(arg, i) > 0
    /\ result.val.message.some
         <=> \E i \in 1..Len(arg) : MESSAGE_PATTERN(arg, i) > 0

(* ====================== properties: aggregation ======================= *)
\* the state is the one a call of from_entries on the entries returned in
StatsState == op = "from_entries"

\* the sum of the response times present in v[1..n], by position
RECURSIVE SumPresent(_, _)
SumPresent(v, n) ==
  IF n = 0 THEN 0
  ELSE SumPresent(v, n - 1)
         + (IF v[n].response_time.some THEN v[n].response_time.val ELSE 0)

\* C4: for a non-empty slice, avg_response_time is the sum of the response
\* times present divided by the number of all records.
C4_AvgOverAllRecords ==
  (StatsState /\ Len(entries) > 0) =>
    /\ result.val.avg_response_time.den # 0
    /\ result.val.avg_response_time.num * Len(entries)
         = SumPresent(entries, Len(entries))
             * result.val.avg_response_time.den

\* response times [100, none, 300] averaged to (100 + 300) / 3
C4_Witness ==
  /\ StatsState
  /\ Len(entries) = 3
  /\ entries[1].response_time = Some(100 * RTScale)
  /\ ~entries[2].response_time.some
  /\ entries[3].response_time = Some(300 * RTScale)
  /\ 3 * result.val.avg_response_time.num
       = 400 * RTScale * result.val.avg_response_time.den

\* the number of positions of v holding the record r
Occurrences(v, r) == Cardinality({i \in 1..Len(v) : v[i] = r})

\* the records of v
RangeOf(v) == {v[i] : i \in 1..Len(v)}

WithLevel(v, level) ==
  Cardinality({i \in 1..Len(v) : v[i].level = Some(level)})

\* C10: total_requests is the number of records, each level counter is the
\* number of records of that level, so their sum is the number of records
\* that have a level and is at most total_requests; a record without level
\* counts in total_requests alone.
C10_LevelCounts ==
  StatsState =>
    /\ result.val.total_requests = Len(entries)
    /\ result.val.info_count = WithLevel(entries, "Info")
    /\ result.val.warning_count = WithLevel(entries, "Warning")
    /\ result.val.error_count = WithLevel(entries, "Error")
    /\ result.val.info_count + result.val.warning_count
         + result.val.error_count
         = Cardinality({i \in 1..Len(entries) : entries[i].level.some})
    /\ result.val.info_count + result.val.warning_count
         + result.val.error_count <= result.val.total_requests

\* a record of a DEBUG line among records with a level: counted in the
\* total and in no bucket
C10_Witness ==
  /\ StatsState
  /\ Len(entries) = 3
  /\ entries[2] = parse_log(LineDebug).val
  /\ ~entries[2].level.some
  /\ entries[1].level.some /\ entries[3].level.some
  /\ result.val.total_requests = 3
  /\ result.val.info_count + result.val.warning_count
       + result.val.error_count = 2

\* the endpoints present in the records of v
EndpointsOf(v) ==
  {v[i].endpoint.val : i \in {j \in 1..Len(v) : v[j].endpoint.some}}

\* the number of records of v whose endpoint is present and equal to e
WithEndpoint(v, e) ==
  Cardinality({i \in 1..Len(v) : v[i].endpoint = Some(e)})

\* C11: endpoint_frequency maps each endpoint e to exactly the number of
\* records whose endpoint is present and equal to e, has no key for an
\* endpoint that occurs in no record, and ignores records without endpoint.
C11_EndpointFrequency ==
  StatsState =>
    /\ DOMAIN result.val.endpoint_frequency = EndpointsOf(entries)
    /\ \A e \in EndpointsOf(entries) :
         result.val.endpoint_frequency[e] = WithEndpoint(entries, e)

\* records with the endpoints /a, /a, /b counted as /a: 2, /b: 1
C11_Witness ==
  /\ StatsState
  /\ Len(entries) = 3
  /\ entries[1].endpoint = Some(<<"/", "a">>)
  /\ entries[2].endpoint = Some(<<"/", "a">>)
  /\ entries[3].endpoint = Some(<<"/", "b">>)
  /\ result.val.endpoint_frequency
       = (<<"/", "a">> :> 2) @@ (<<"/", "b">> :> 1)

\* the number of Error records of v whose endpoint is present and equal to e
ErrorsWithEndpoint(v, e) ==
  Cardinality({i \in 1..Len(v) :
                 v[i].level = Some("Error") /\ v[i].endpoint = Some(e)})

\* the endpoints present in the Error records of v
ErrorEndpointsOf(v) ==
  {e \in EndpointsOf(v) : ErrorsWithEndpoint(v, e) > 0}

\* the sum of the values of the map m over the keys in K
RECURSIVE SumOver(_, _)
SumOver(m, K) ==
  IF K = {} THEN 0
  ELSE LET k == CHOOSE x \in K : TRUE
       IN  m[k] + SumOver(m, K \ {k})

\* C12: errors_by_endpoint maps each endpoint e to exactly the number of
\* records whose level is Error and whose endpoint is present and equal to
\* e; records of another level or without level never change it, so every
\* key of it is a key of endpoint_frequency with a value at least as large,
\* and the sum of its values is at most error_count.
C12_ErrorsByEndpoint ==
  StatsState =>
    /\ DOMAIN result.val.errors_by_endpoint = ErrorEndpointsOf(entries)
    /\ \A e \in ErrorEndpointsOf(entries) :
         /\ result.val.errors_by_endpoint[e] = ErrorsWithEndpoint(entries, e)
         /\ e \in DOMAIN result.val.endpoint_frequency
         /\ result.val.errors_by_endpoint[e]
              <= result.val.endpoint_frequency[e]
    /\ SumOver(result.val.errors_by_endpoint,
               DOMAIN result.val.errors_by_endpoint)
         <= result.val.error_count

\* Info on /a, Error on /a, Warning on /b: the Error record alone is counted
C12_Witness ==
  /\ StatsState
  /\ Len(entries) = 3
  /\ entries[1].level = Some("Info") /\ entries[1].endpoint = Some(<<"/", "a">>)
  /\ entries[2].level = Some("Error") /\ entries[2].endpoint = Some(<<"/", "a">>)
  /\ entries[3].level = Some("Warning") /\ entries[3].endpoint.some
  /\ result.val.errors_by_endpoint = (<<"/", "a">> :> 1)
  /\ result.val.endpoint_frequency[<<"/", "a">>] = 2
  /\ result.val.error_count = 1

(* ======================== properties: filters ========================= *)
\* the positions seq yields, and whether it yields them in collection order
Yielded(seq) == {seq[k] : k \in 1..Len(seq)}
InOrder(seq) == \A j \in 1..Len(seq) : \A k \in (j + 1)..Len(seq) : seq[j] < seq[k]

\* the level a valid level name stands for
LevelNamed(name) ==
  CASE name = LevelINFO -> "Info"
    [] name = LevelWARNING -> "Warning"
    [] name = LevelERROR -> "Error"

ValidLevelArgs == {LevelINFO, LevelWARNING, LevelERROR}

\* C6: filter_by_level(L), L one of INFO, WARNING, ERROR, yields exactly the
\* records whose level is present and equal to L, in collection order.
C6_FilterByLevel ==
  (op = "filter_by_level" /\ arg \in ValidLevelArgs) =>
    /\ result.kind = "Ok"
    /\ Yielded(result.val)
         = {i \in 1..Len(entries) : entries[i].level = Some(LevelNamed(arg))}
    /\ InOrder(result.val)
    /\ \A i \in Yielded(result.val) : entries[i].level.some

\* ERROR picks the one Error record between an Info record and a record
\* without level
C6_Witness ==
  /\ op = "filter_by_level" /\ arg = LevelERROR
  /\ Len(entries) = 3
  /\ entries[1].level = Some("Info")
  /\ entries[2].level = Some("Error")
  /\ ~entries[3].level.some
  /\ result = Ok(<<2>>)

MonthNames ==
  << <<"J", "a", "n">>, <<"F", "e", "b">>, <<"M", "a", "r">>,
     <<"A", "p", "r">>, <<"M", "a", "y">>, <<"J", "u", "n">>,
     <<"J", "u", "l">>, <<"A", "u", "g">>, <<"S", "e", "p">>,
     <<"O", "c", "t">>, <<"N", "o", "v">>, <<"D", "e", "c">> >>

\* the number of the month named w, 0 when w names none
MonthNumber(w) ==
  IF \E k \in 1..12 : MonthNames[k] = w
  THEN CHOOSE k \in 1..12 : MonthNames[k] = w ELSE 0

\* the calendar date a timestamp text states, in either recognized format:
\* [DD/Mon/YYYY:...] or YYYY-MM-DD ...
CalendarDate(ts) ==
  IF ts[1] = "["
  THEN from_ymd_opt(DecVal(SubSeq(ts, 9, 12)), MonthNumber(SubSeq(ts, 5, 7)),
                    DecVal(SubSeq(ts, 2, 3)))
  ELSE from_ymd_opt(DecVal(SubSeq(ts, 1, 4)), DecVal(SubSeq(ts, 6, 7)),
                    DecVal(SubSeq(ts, 9, 10)))

\* the record e has a timestamp whose calendar date is within [lo, hi]
DatedWithin(e, lo, hi) ==
  /\ e.timestamp.some
  /\ CalendarDate(e.timestamp.val).some
  /\ DateLe(lo, CalendarDate(e.timestamp.val).val)
  /\ DateLe(CalendarDate(e.timestamp.val).val, hi)

\* a date argument that is a calendar date written YYYY-MM-DD
ValidDateArg(d) ==
  /\ Len(d) = Len(DateTmpl)
  /\ MatchTmpl(d, 1, DateTmpl)
  /\ DecVal(SubSeq(d, 6, 7)) \in 1..12
  /\ DecVal(SubSeq(d, 9, 10))
       \in 1..DaysInMonth(DecVal(SubSeq(d, 1, 4)), DecVal(SubSeq(d, 6, 7)))

\* the date such an argument states
DateOfArg(d) ==
  <<DecVal(SubSeq(d, 1, 4)), DecVal(SubSeq(d, 6, 7)), DecVal(SubSeq(d, 9, 10))>>

\* C7: filter_by_date_range(start, end) with valid dates yields a record
\* if and only if it has a timestamp, in either recognized format, whose
\* calendar date is within [start, end], in collection order.
C7_FilterByDateRange ==
  (/\ op = "filter_by_date_range"
   /\ ValidDateArg(arg.start) /\ ValidDateArg(arg.end)) =>
    /\ result.kind = "Ok"
    /\ Yielded(result.val)
         = {i \in 1..Len(entries) :
              DatedWithin(entries[i], DateOfArg(arg.start),
                          DateOfArg(arg.end))}
    /\ InOrder(result.val)

\* the pattern p occurs in the text t at position i as a whole word: it is
\* not a fragment of a longer word on either side
WholeWordAt(t, i, p) ==
  /\ MatchLit(t, i, p)
  /\ ~(IsWordAt(t, i - 1) /\ IsWordAt(t, i))
  /\ ~(IsWordAt(t, i + Len(p) - 1) /\ IsWordAt(t, i + Len(p)))

\* C8: filter_by_endpoint(p) yields a record only when its endpoint is
\* present and contains the literal text p as a whole word.
C8_FilterByEndpoint ==
  op = "filter_by_endpoint" =>
    /\ result.kind = "Ok"
    /\ \A i \in Yielded(result.val) :
         /\ entries[i].endpoint.some
         /\ \E k \in 1..Len(entries[i].endpoint.val) :
              WholeWordAt(entries[i].endpoint.val, k, arg)

\* the step is a call of filter_by_date_range with an invalid date
BadDateStep ==
  /\ op' = "filter_by_date_range"
  /\ ~ValidDateArg(arg'.start) \/ ~ValidDateArg(arg'.end)

\* C9: filter_by_date_range with a start or end that is no valid date
\* returns an error value for that call only: the entries are unchanged,
\* the program goes on, and a filter_by_level call made next with a valid
\* level yields what it yields on the unchanged entries.
C9_BadDateArgument ==
  [][/\ BadDateStep =>
          /\ result' = Err("DateParseError")
          /\ entries' = entries
     /\ (/\ op = "filter_by_date_range" /\ result.kind = "Err"
         /\ op' = "filter_by_level" /\ arg' \in ValidLevelArgs) =>
          /\ result'.kind = "Ok"
          /\ Yielded(result'.val)
               = {i \in 1..Len(entries) :
                    entries[i].level = Some(LevelNamed(arg'))}]_vars

\* a call with the invalid end date 2024-13-01 on a collection of records
C9_Witness ==
  /\ op = "filter_by_date_range"
  /\ arg.start = Date16 /\ arg.end = DateBad
  /\ result = Err("DateParseError")
  /\ Len(entries) > 0

(* ======================== properties: frame =========================== *)
\* the records parse_log yields for the first n lines, in line order: one
\* for each line that is read, is not blank and is parsed
RECURSIVE RecordsOf(_, _)
RecordsOf(lines, n) ==
  IF n = 0 THEN <<>>
  ELSE IF /\ lines[n].kind = "Ok"
          /\ ~IsBlank(lines[n].val)
          /\ parse_log_of[lines[n].val].kind = "Ok"
  THEN Append(RecordsOf(lines, n - 1), parse_log_of[lines[n].val].val)
  ELSE RecordsOf(lines, n - 1)

FilterOps == {"filter_by_level", "filter_by_date_range", "filter_by_endpoint"}

\* C15: the collection is append-only: a call of read_and_parse_log keeps
\* the records stored before as an unchanged prefix and appends the new
\* records in file line order, the entries_parsed it returns is the growth
\* of the entries made by that call alone, and the three filters leave the
\* entries as they are.
C15_AppendOnly ==
  [][/\ op' = "read_and_parse_log" =>
          /\ Len(entries') >= Len(entries)
          /\ SubSeq(entries', 1, Len(entries)) = entries
          /\ arg'.kind = "Ok" =>
               SubSeq(entries', Len(entries) + 1, Len(entries'))
                 = RecordsOf(arg'.val, Len(arg'.val))
          /\ result'.kind = "Ok" =>
               result'.val.entries_parsed = Len(entries') - Len(entries)
     /\ op' \in FilterOps => entries' = entries]_vars

\* a second file of two different lines read into a collection of one
\* record: the record kept first, the two new ones behind it in line order
C15_Witness ==
  /\ ReadState
  /\ Len(arg.val) = 2
  /\ Len(entries) = 3
  /\ result.kind = "Ok"
  /\ result.val.entries_parsed = 2
  /\ arg.val[1].kind = "Ok" /\ arg.val[2].kind = "Ok"
  /\ entries[2] = parse_log_of[arg.val[1].val].val
  /\ entries[3] = parse_log_of[arg.val[2].val].val
  /\ entries[2] # entries[3]
  /\ entries[1] # entries[2]

\* C16: filter_by_level called with a name that is none of INFO, WARNING,
\* ERROR never panics, at the call or while its iterator is consumed: the
\* name is reported as the error value of the Result it returns.
C16_InvalidLevelReported ==
  (op = "filter_by_level" /\ arg \notin ValidLevelArgs) =>
    /\ result.kind # "Panic"
    /\ result.kind = "Err"

====
